---- MODULE Spec2Model ----
(***************************************************************************)
(* A model of src/src/queries.rs: GenericQueryRepository (new,             *)
(* with_error_handler, load_mut, apply_events, load) and                   *)
(* QueryContext::commit, over a sled Db.                                   *)
(*                                                                         *)
(* The repository is generic in the view type V.  Two instantiations are   *)
(* modelled, both newtype structs with derived serde implementations:      *)
(*   "balance": struct Balance(i64), the integer counter of the spec,      *)
(*              whose serde_json value is a JSON number;                   *)
(*   "notes":   struct Notes(String), whose serde_json value is a JSON     *)
(*              string.                                                    *)
(* Stored bytes are sequences of one-character strings.  A behaviour of    *)
(* Spec constructs one of the two repositories and calls its operations    *)
(* one after the other; a call that panics leaves the Db and the           *)
(* repository to the calls that follow it.                                 *)
(* SpecDispatch adds the calls made through QueryProcessor::dispatch.      *)
(* SpecConc constructs both repositories over one Db and lets two threads  *)
(* run apply_events at once, a step at a time: load_mut, the fold, commit. *)
(***************************************************************************)
EXTENDS Integers, Sequences, FiniteSets, TLC

VARIABLES repos, db, error_handler, replaced, committed, lastCall, calls,
          base

vars == <<repos, db, error_handler, replaced, committed, lastCall, calls,
          base>>

----------------------------------------------------------------------------
(* Bounds *)

\* longest batch of events handed to one apply_events call
MaxEvents == 3

\* longest text view (in characters) the model lets a call produce
MaxView == 2

----------------------------------------------------------------------------
(* Option and Result values *)

None == [tag |-> "None"]

Some(v) == [tag |-> "Some", val |-> v]

Ok(v) == [tag |-> "Ok", val |-> v]

Err(e) == [tag |-> "Err", err |-> e]

\* the call did not return (it panicked)
NoReturn == [tag |-> "NoReturn"]

\* the call returned ()
Unit == [tag |-> "Unit"]

----------------------------------------------------------------------------
(* The domain: repositories, ids, handlers, bytes, views, events *)

\* query_name of each repository; the sled tree of the same name
Repos == {"balance", "notes"}

Ids == {"acct-1", "acct-2"}

Handlers == {"h1", "h2"}

Quote == "\""

\* the characters stored bytes and text views are made of
Chars == {Quote, "a"}

Digits == <<"0", "1", "2", "3", "4", "5", "6", "7", "8", "9">>

ViewType(q) == IF q = "balance" THEN "Counter" ELSE "Text"

\* V::default()
Default(vt) ==
    IF vt = "Counter" THEN [kind |-> "Counter", n |-> 0]
    ELSE [kind |-> "Text", s |-> <<>>]

CounterEvents ==
    { [type |-> "Deposit", amount |-> 10],
      [type |-> "Deposit", amount |-> 5],
      [type |-> "Withdraw", amount |-> 3] }

TextEvents == { [type |-> "Append", ch |-> c] : c \in Chars }

\* the batches of events a caller hands to apply_events
CounterBatches == UNION { [1..n -> CounterEvents] : n \in 0..MaxEvents }

TextBatches == UNION { [1..n -> TextEvents] : n \in 0..MaxEvents }

Batches(q) == IF ViewType(q) = "Counter" THEN CounterBatches ELSE TextBatches

\* view.update(event)
Update(view, event) ==
    IF view.kind = "Counter"
    THEN IF event.type = "Deposit"
         THEN [view EXCEPT !.n = @ + event.amount]
         ELSE [view EXCEPT !.n = @ - event.amount]
    ELSE [view EXCEPT !.s = Append(@, event.ch)]

\* for event in events { view.update(event); }
RECURSIVE Fold(_, _)
Fold(view, events) ==
    IF events = <<>> THEN view
    ELSE Fold(Update(view, Head(events)), Tail(events))

----------------------------------------------------------------------------
(* serde_json *)

\* serde_json::to_value(&view): a newtype struct serializes as its field
ToValue(view) ==
    IF view.kind = "Counter"
    THEN Ok([json |-> "Number", n |-> view.n])
    ELSE Ok([json |-> "String", s |-> view.s])

\* as_str().unwrap_or(""): an empty payload for what is no JSON string
AsStrOrEmpty(value) ==
    IF value.json = "String" THEN Some(value.s) ELSE Some(<<>>)

\* Value::as_str: Some(contents) for a JSON string, None for anything else
AsStr(value) ==
    IF value.json = "String" THEN Some(value.s) ELSE None

\* the bytes are a JSON string literal: a quote, characters that are not a
\* quote, a quote, and nothing after it
IsJsonString(bytes) ==
    /\ Len(bytes) >= 2
    /\ bytes[1] = Quote
    /\ bytes[Len(bytes)] = Quote
    /\ \A i \in 2..(Len(bytes) - 1) : bytes[i] # Quote

IsDigit(c) == \E d \in 1..10 : Digits[d] = c

DigitVal(c) == (CHOOSE d \in 1..10 : Digits[d] = c) - 1

\* the bytes are a JSON integer literal: an optional minus, then digits
\* with no leading zero
IsJsonInteger(bytes) ==
    LET body == IF bytes # <<>> /\ bytes[1] = "-" THEN Tail(bytes) ELSE bytes
    IN /\ body # <<>>
       /\ \A i \in 1..Len(body) : IsDigit(body[i])
       /\ (Len(body) > 1 => body[1] # "0")

RECURSIVE DigitsValue(_, _)
DigitsValue(acc, body) ==
    IF body = <<>> THEN acc
    ELSE DigitsValue(acc * 10 + DigitVal(Head(body)), Tail(body))

JsonIntegerValue(bytes) ==
    IF bytes[1] = "-" THEN 0 - DigitsValue(0, Tail(bytes))
    ELSE DigitsValue(0, bytes)

\* serde_json::from_slice::<V>(bytes)
FromSlice(vt, bytes) ==
    IF vt = "Counter"
    THEN IF IsJsonInteger(bytes)
         THEN Ok([kind |-> "Counter", n |-> JsonIntegerValue(bytes)])
         ELSE Err("deserialization")
    ELSE IF IsJsonString(bytes)
         THEN Ok([kind |-> "Text", s |-> SubSeq(bytes, 2, Len(bytes) - 1)])
         ELSE Err("deserialization")

----------------------------------------------------------------------------
(* sled: what a storage call of one operation may fail with *)

LoadFaults == {"none", "open_tree", "get"}

ApplyFaults == {"none", "open_tree", "get", "commit_open_tree", "insert"}

\* the inputs of apply_events: every batch over a storage that works, and
\* the batches of at most one event over a storage call that fails
CounterInputs ==
    (CounterBatches \X {"none"})
        \cup ({b \in CounterBatches : Len(b) <= 1} \X (ApplyFaults \ {"none"}))

TextInputs ==
    (TextBatches \X {"none"})
        \cup ({b \in TextBatches : Len(b) <= 1} \X (ApplyFaults \ {"none"}))

ApplyInputs(q) == IF ViewType(q) = "Counter" THEN CounterInputs ELSE TextInputs

\* insert taking an empty value for the removal of the record
InsertEmptyRemoves(store, q, key, value) ==
    [store EXCEPT ![q][key] = IF value = <<>> THEN None ELSE Some(value)]

\* insert writing the value under every id of the tree
InsertAllKeys(store, q, key, value) ==
    [store EXCEPT ![q] = [i \in DOMAIN @ |-> Some(value)]]

\* insert appending the value to the record already stored
InsertAppending(store, q, key, value) ==
    [store EXCEPT ![q][key] = IF @.tag = "Some" THEN Some(@.val \o value)
                              ELSE Some(value)]

\* tree.insert(key, value)
Insert(store, q, key, value) ==
    [store EXCEPT ![q][key] = Some(value)]

----------------------------------------------------------------------------
(* GenericQueryRepository and QueryContext *)

Panic(at) == [tag |-> "Panic", at |-> at]

\* InvokeHandler with the error dropped whether or not a handler is set
InvokeHandlerNever(handler, e) == <<>>

\* match &self.error_handler { None => {}, Some(handler) => (handler)(e) }:
\* the handler invocations this makes
InvokeHandler(handler, e) ==
    IF handler.tag = "Some" THEN <<[handler |-> handler.val, error |-> e]>>
    ELSE <<>>

\* load_mut reading the first id of the tree, whatever id it is asked for
LoadMutFirstId(store, q, query_instance_id, fault) ==
    IF fault = "open_tree" THEN Panic("open_tree")
    ELSE IF fault = "get" THEN Panic("get")
    ELSE LET result == store[q]["acct-1"]
             view_context == [query_name |-> q,
                              query_instance_id |-> query_instance_id]
         IN IF result.tag = "Some"
            THEN LET view == FromSlice(ViewType(q), result.val)
                 IN IF view.tag = "Ok"
                    THEN Ok([view |-> view.val, view_context |-> view_context])
                    ELSE Panic("from_slice")
            ELSE Ok([view |-> Default(ViewType(q)),
                     view_context |-> view_context])

\* load_mut: Ok((view, view_context)), or a panic of one of its unwraps
LoadMut(store, q, query_instance_id, fault) ==
    IF fault = "open_tree" THEN Panic("open_tree")
    ELSE IF fault = "get" THEN Panic("get")
    ELSE LET result == store[q][query_instance_id]
             view_context == [query_name |-> q,
                              query_instance_id |-> query_instance_id]
         IN IF result.tag = "Some"
            THEN LET view == FromSlice(ViewType(q), result.val)
                 IN IF view.tag = "Ok"
                    THEN Ok([view |-> view.val, view_context |-> view_context])
                    ELSE Panic("from_slice")
            ELSE Ok([view |-> Default(ViewType(q)),
                     view_context |-> view_context])

\* commit whose write has taken effect when the insert reports its error
CommitInsertThenPanic(store, view_context, view, fault) ==
    LET payload == ToValue(view)
    IN IF payload.tag = "Err" THEN [db |-> store, panic |-> "to_value"]
       ELSE IF fault = "commit_open_tree"
       THEN [db |-> store, panic |-> "commit_open_tree"]
       ELSE LET value == AsStr(payload.val)
            IN IF value.tag = "None" THEN [db |-> store, panic |-> "as_str"]
               ELSE [db |-> Insert(store, view_context.query_name,
                                   view_context.query_instance_id, value.val),
                     panic |-> IF fault = "insert" THEN "insert" ELSE "none"]

\* QueryContext::commit: the store it leaves and the panic that ended it
Commit(store, view_context, view, fault) ==
    LET payload == ToValue(view)
    IN IF payload.tag = "Err" THEN [db |-> store, panic |-> "to_value"]
       ELSE IF fault = "commit_open_tree"
       THEN [db |-> store, panic |-> "commit_open_tree"]
       ELSE LET value == AsStr(payload.val)
            IN IF value.tag = "None" THEN [db |-> store, panic |-> "as_str"]
               ELSE IF fault = "insert" THEN [db |-> store, panic |-> "insert"]
               ELSE [db |-> Insert(store, view_context.query_name,
                                   view_context.query_instance_id, value.val),
                     panic |-> "none"]

\* apply_events catching a failed commit and reporting it to the handler
ApplyEventsOutcomeReporting(store, handler, q, query_instance_id, events, fault) ==
    LET loaded == LoadMut(store, q, query_instance_id, fault)
    IN IF loaded.tag = "Ok"
       THEN LET view == Fold(loaded.val.view, events)
                done == Commit(store, loaded.val.view_context, view, fault)
            IN IF done.panic = "none"
               THEN [db |-> done.db, panic |-> "none", handled |-> <<>>,
                     committed |-> TRUE]
               ELSE [db |-> store, panic |-> "none",
                     handled |-> InvokeHandler(handler, done.panic),
                     committed |-> FALSE]
       ELSE [db |-> store, panic |-> loaded.at, handled |-> <<>>,
             committed |-> FALSE]

\* apply_events: the store it leaves, the panic that ended it, the handler
\* invocations it made and whether its commit completed
ApplyEventsOutcome(store, handler, q, query_instance_id, events, fault) ==
    LET loaded == LoadMut(store, q, query_instance_id, fault)
    IN IF loaded.tag = "Ok"
       THEN LET view == Fold(loaded.val.view, events)
                done == Commit(store, loaded.val.view_context, view, fault)
            IN [db |-> done.db, panic |-> done.panic, handled |-> <<>>,
                committed |-> done.panic = "none"]
       ELSE IF loaded.tag = "Err"
       THEN [db |-> store, panic |-> "none",
             handled |-> InvokeHandler(handler, loaded.err),
             committed |-> FALSE]
       ELSE [db |-> store, panic |-> loaded.at, handled |-> <<>>,
             committed |-> FALSE]

\* load falling back to the default view for a missing record, as load_mut
\* does
LoadOutcomeDefault(store, handler, q, query_instance_id, fault) ==
    IF fault = "open_tree"
    THEN [ret |-> NoReturn, panic |-> "open_tree", handled |-> <<>>]
    ELSE IF fault = "get"
    THEN [ret |-> NoReturn, panic |-> "get", handled |-> <<>>]
    ELSE LET result == store[q][query_instance_id]
         IN IF result.tag = "Some"
            THEN LET view == FromSlice(ViewType(q), result.val)
                 IN IF view.tag = "Ok"
                    THEN [ret |-> Some(view.val), panic |-> "none",
                          handled |-> <<>>]
                    ELSE [ret |-> None, panic |-> "none",
                          handled |-> InvokeHandler(handler, view.err)]
            ELSE [ret |-> Some(Default(ViewType(q))), panic |-> "none",
                  handled |-> <<>>]

\* load unwrapping the deserialized view, as load_mut does
LoadOutcomeUnwrap(store, handler, q, query_instance_id, fault) ==
    IF fault = "open_tree"
    THEN [ret |-> NoReturn, panic |-> "open_tree", handled |-> <<>>]
    ELSE IF fault = "get"
    THEN [ret |-> NoReturn, panic |-> "get", handled |-> <<>>]
    ELSE LET result == store[q][query_instance_id]
         IN IF result.tag = "Some"
            THEN LET view == FromSlice(ViewType(q), result.val)
                 IN IF view.tag = "Ok"
                    THEN [ret |-> Some(view.val), panic |-> "none",
                          handled |-> <<>>]
                    ELSE [ret |-> NoReturn, panic |-> "from_slice",
                          handled |-> <<>>]
            ELSE [ret |-> None, panic |-> "none", handled |-> <<>>]

\* load: what it returns, the panic that ended it and the handler
\* invocations it made
LoadOutcome(store, handler, q, query_instance_id, fault) ==
    IF fault = "open_tree"
    THEN [ret |-> NoReturn, panic |-> "open_tree", handled |-> <<>>]
    ELSE IF fault = "get"
    THEN [ret |-> NoReturn, panic |-> "get", handled |-> <<>>]
    ELSE LET result == store[q][query_instance_id]
         IN IF result.tag = "Some"
            THEN LET view == FromSlice(ViewType(q), result.val)
                 IN IF view.tag = "Ok"
                    THEN [ret |-> Some(view.val), panic |-> "none",
                          handled |-> <<>>]
                    ELSE [ret |-> None, panic |-> "none",
                          handled |-> InvokeHandler(handler, view.err)]
            ELSE [ret |-> None, panic |-> "none", handled |-> <<>>]

\* the size of a view, which the model bounds
ViewSize(view) == IF view.kind = "Text" THEN Len(view.s) ELSE 0

\* the call's fold stays within the model's bound on views
WithinBounds(store, q, query_instance_id, events) ==
    LET loaded == LoadMut(store, q, query_instance_id, "none")
    IN loaded.tag = "Ok" =>
           ViewSize(Fold(loaded.val.view, events)) <= MaxView

----------------------------------------------------------------------------
(* The state machine *)

\* what a call left behind for its caller to see
Call(op, q, id, ret, panic, handled) ==
    [op |-> op, repo |-> q, id |-> id, ret |-> ret, panic |-> panic,
     handled |-> handled]

\* the threads that call apply_events at the same time
Procs == {1, 2}

\* the apply_events calls two threads make at the same time: in "notes" the
\* batches a view can hold, in "balance" those of at most one event
ConcCalls ==
    { c \in Repos \X Ids \X (CounterBatches \cup TextBatches) :
         /\ c[3] \in Batches(c[1])
         /\ Len(c[3]) <= (IF ViewType(c[1]) = "Text" THEN 2 ELSE 1) }

\* a thread's call of apply_events: where it stands (pc), its arguments, the
\* record its load_mut read (seen), its local view and view_context, and the
\* panic that ended it
InFlight(pc, c, seen, view, panic) ==
    [pc |-> pc, q |-> c[1], id |-> c[2], events |-> c[3], seen |-> seen,
     view |-> view,
     view_context |-> [query_name |-> c[1], query_instance_id |-> c[2]],
     panic |-> panic]

\* a thread that has made no call yet
NotCalled ==
    InFlight("idle", <<"balance", "acct-1", <<>>>>, None, Default("Counter"),
             "none")

\* GenericQueryRepository::new(query_name, db) over a Db with no records
New(q) ==
    /\ repos = {q}
    /\ db = [n \in Repos |-> [i \in Ids |-> None]]
    /\ error_handler = [n \in Repos |-> None]
    /\ replaced = [n \in Repos |-> FALSE]
    /\ committed = {}
    /\ lastCall = Call("new", q, "acct-1", Unit, "none", <<>>)
    /\ calls = [p \in Procs |-> NotCalled]
    /\ base = db

Init == \E q \in Repos : New(q)

\* with_error_handler keeping the handler that is already set
SetHandlerOnce(handlers, q, h) ==
    IF handlers[q].tag = "Some" THEN handlers
    ELSE [handlers EXCEPT ![q] = Some(h)]

\* self.error_handler = Some(error_handler)
SetHandler(handlers, q, h) == [handlers EXCEPT ![q] = Some(h)]

\* replaced records that a call dropped a handler set before for another
WithErrorHandler(q, h) ==
    /\ error_handler' = SetHandler(error_handler, q, h)
    /\ replaced' = [replaced EXCEPT
                       ![q] = @ \/ (/\ error_handler[q].tag = "Some"
                                    /\ error_handler[q].val # h)]
    /\ lastCall' = Call("with_error_handler", q, "acct-1", Unit, "none", <<>>)
    /\ UNCHANGED <<repos, db, committed, calls, base>>

ApplyEvents(q, id, events, fault) ==
    /\ WithinBounds(db, q, id, events)
    /\ LET out == ApplyEventsOutcome(db, error_handler[q], q, id, events, fault)
       IN /\ db' = out.db
          /\ committed' = IF out.committed THEN committed \cup {<<q, id>>}
                          ELSE committed
          /\ lastCall' = Call("apply_events", q, id,
                              IF out.panic = "none" THEN Unit ELSE NoReturn,
                              out.panic, out.handled)
    /\ UNCHANGED <<repos, error_handler, replaced, calls, base>>

\* dispatch forwarding the id and an empty batch
DispatchOutcomeNoEvents(store, handler, q, query_instance_id, events, fault) ==
    ApplyEventsOutcome(store, handler, q, query_instance_id, <<>>, fault)

\* dispatch: self.apply_events(&query_instance_id.to_string(), &events)
DispatchOutcome(store, handler, q, query_instance_id, events, fault) ==
    ApplyEventsOutcome(store, handler, q, query_instance_id, events, fault)

Dispatch(q, id, events, fault) ==
    /\ WithinBounds(db, q, id, events)
    /\ LET out == DispatchOutcome(db, error_handler[q], q, id, events, fault)
       IN /\ db' = out.db
          /\ committed' = IF out.committed THEN committed \cup {<<q, id>>}
                          ELSE committed
          /\ lastCall' = Call("dispatch", q, id,
                              IF out.panic = "none" THEN Unit ELSE NoReturn,
                              out.panic, out.handled)
    /\ UNCHANGED <<repos, error_handler, replaced, calls, base>>

\* load removing the record it could not deserialize
LoadDropping(q, id, fault) ==
    /\ LET out == LoadOutcome(db, error_handler[q], q, id, fault)
       IN /\ lastCall' = Call("load", q, id, out.ret, out.panic, out.handled)
          /\ db' = IF fault = "none" /\ db[q][id].tag = "Some"
                      /\ FromSlice(ViewType(q), db[q][id].val).tag = "Err"
                   THEN [db EXCEPT ![q][id] = None]
                   ELSE db
    /\ UNCHANGED <<repos, error_handler, replaced, committed, calls, base>>

Load(q, id, fault) ==
    /\ LET out == LoadOutcome(db, error_handler[q], q, id, fault)
       IN lastCall' = Call("load", q, id, out.ret, out.panic, out.handled)
    /\ UNCHANGED <<repos, db, error_handler, replaced, committed, calls,
                   base>>

Next ==
    \/ \E q \in repos, h \in Handlers : WithErrorHandler(q, h)
    \/ \E q \in repos, id \in Ids :
           \E in \in ApplyInputs(q) : ApplyEvents(q, id, in[1], in[2])
    \/ \E q \in repos, id \in Ids, fault \in LoadFaults : Load(q, id, fault)

Spec == Init /\ [][Next]_vars

\* the repository called through the framework's QueryProcessor as well
NextDispatch ==
    \/ Next
    \/ \E q \in repos, id \in Ids :
           \E in \in ApplyInputs(q) : Dispatch(q, id, in[1], in[2])

SpecDispatch == Init /\ [][NextDispatch]_vars

\* the batches of the apply_events calls made before the threads start:
\* one leaves a record that deserializes, the other one that does not
PriorBatches ==
    { <<[type |-> "Append", ch |-> Quote], [type |-> "Append", ch |-> Quote]>>,
      <<[type |-> "Append", ch |-> "a"]>> }

\* per id of "notes", no earlier call or one earlier call
PriorRuns == {<<>>} \cup { <<b>> : b \in PriorBatches }

\* the store after the apply_events calls of run for id, one after the other
After(store, id, run) ==
    IF run = <<>> THEN store
    ELSE ApplyEventsOutcome(store, None, "notes", id, run[1], "none").db

\* both repositories constructed over clones of one Db handle, and the Db
\* as the earlier calls r1 (for "acct-1") and r2 (for "acct-2") left it
NewShared(r1, r2) ==
    /\ repos = Repos
    /\ db = After(After([n \in Repos |-> [i \in Ids |-> None]],
                        "acct-1", r1), "acct-2", r2)
    /\ error_handler = [n \in Repos |-> None]
    /\ replaced = [n \in Repos |-> FALSE]
    /\ committed = { k \in Repos \X Ids : db[k[1]][k[2]].tag = "Some" }
    /\ lastCall = Call("new", "notes", "acct-1", Unit, "none", <<>>)
    /\ calls = [p \in Procs |-> NotCalled]
    /\ base = db

\* two threads enter apply_events; base is the store they start from
Spawn(c1, c2) ==
    /\ \A p \in Procs : calls[p].pc = "idle"
    /\ calls' = [p \in Procs |->
                    LET c == IF p = 1 THEN c1 ELSE c2
                    IN InFlight("called", c, None, Default(ViewType(c[1])),
                                "none")]
    /\ base' = db
    /\ UNCHANGED <<repos, db, error_handler, replaced, committed, lastCall>>

\* let (mut view, view_context) = self.load_mut(...) of thread p
LoadStep(p) ==
    /\ calls[p].pc = "called"
    /\ LET c == calls[p]
           loaded == LoadMut(db, c.q, c.id, "none")
       IN IF loaded.tag = "Ok"
          THEN /\ calls' = [calls EXCEPT
                               ![p].pc = "loaded",
                               ![p].seen = db[c.q][c.id],
                               ![p].view = loaded.val.view,
                               ![p].view_context = loaded.val.view_context]
               /\ UNCHANGED lastCall
          ELSE /\ calls' = [calls EXCEPT
                               ![p].pc = "done",
                               ![p].seen = db[c.q][c.id],
                               ![p].panic = loaded.at]
               /\ lastCall' = Call("apply_events", c.q, c.id, NoReturn,
                                   loaded.at, <<>>)
    /\ UNCHANGED <<repos, db, error_handler, replaced, committed, base>>

\* for event in events { view.update(event) } of thread p
FoldStep(p) ==
    /\ calls[p].pc = "loaded"
    /\ ViewSize(Fold(calls[p].view, calls[p].events)) <= MaxView
    /\ calls' = [calls EXCEPT ![p].pc = "folded",
                              ![p].view = Fold(@, calls[p].events)]
    /\ UNCHANGED <<repos, db, error_handler, replaced, committed, lastCall,
                   base>>

\* view_context.commit(self.db.clone(), view) of thread p
CommitStep(p) ==
    /\ calls[p].pc = "folded"
    /\ LET c == calls[p]
           done == Commit(db, c.view_context, c.view, "none")
       IN /\ db' = done.db
          /\ calls' = [calls EXCEPT ![p].pc = "done", ![p].panic = done.panic]
          /\ committed' = IF done.panic = "none"
                          THEN committed \cup {<<c.q, c.id>>}
                          ELSE committed
          /\ lastCall' = Call("apply_events", c.q, c.id,
                              IF done.panic = "none" THEN Unit ELSE NoReturn,
                              done.panic, <<>>)
    /\ UNCHANGED <<repos, error_handler, replaced, base>>

\* two threads calling apply_events on repositories that share the Db
NextConc ==
    \/ \E c1 \in ConcCalls, c2 \in ConcCalls : Spawn(c1, c2)
    \/ \E p \in Procs : LoadStep(p)
    \/ \E p \in Procs : FoldStep(p)
    \/ \E p \in Procs : CommitStep(p)

InitConc == \E r1 \in PriorRuns, r2 \in PriorRuns : NewShared(r1, r2)

SpecConc == InitConc /\ [][NextConc]_vars

TypeOK ==
    /\ repos \subseteq Repos
    /\ \A q \in Repos, i \in Ids :
          db[q][i] = None \/ (db[q][i].tag = "Some" /\ db[q][i].val \in Seq(Chars))
    /\ \A q \in Repos : error_handler[q] = None \/ error_handler[q].val \in Handlers
    /\ replaced \in [Repos -> BOOLEAN]
    /\ committed \subseteq Repos \X Ids
    /\ \A p \in Procs :
          calls[p].pc \in {"idle", "called", "loaded", "folded", "done"}
    /\ \A q \in Repos, i \in Ids :
          base[q][i] = None \/ base[q][i].val \in Seq(Chars)

----------------------------------------------------------------------------
(* What the claims speak of *)

\* a record is stored under (q, id) and does not deserialize into the view
Malformed(store, q, id) ==
    /\ store[q][id].tag = "Some"
    /\ FromSlice(ViewType(q), store[q][id].val).tag = "Err"

\* the view a record deserializes into, None for a missing or malformed one
StoredView(store, q, id) ==
    IF store[q][id].tag = "Some"
       /\ FromSlice(ViewType(q), store[q][id].val).tag = "Ok"
    THEN Some(FromSlice(ViewType(q), store[q][id].val).val)
    ELSE None

\* what load(id) returns over a storage that works
Loaded(store, handler, q, id) == LoadOutcome(store, handler, q, id, "none").ret

\* the events of the spec's concrete scenario
Scenario ==
    << [type |-> "Deposit", amount |-> 10],
       [type |-> "Deposit", amount |-> 5],
       [type |-> "Withdraw", amount |-> 3] >>

----------------------------------------------------------------------------
(* C1 *)

\* C1: when id has no record, a completed apply_events(id, events) leaves
\* the stored record and load(id) holding the left fold of events over the
\* default view; and in "balance", for "acct-1" and the events Deposit(10),
\* Deposit(5), Withdraw(3), load("acct-1") then returns 12.
C1_FoldOverDefault ==
    [][\A q \in repos, id \in Ids : \A events \in Batches(q) :
          (db[q][id] = None /\ ApplyEvents(q, id, events, "none")) =>
              LET folded == Fold(Default(ViewType(q)), events)
              IN /\ lastCall'.panic = "none" =>
                       /\ StoredView(db', q, id) = Some(folded)
                       /\ Loaded(db', error_handler'[q], q, id) = Some(folded)
                 /\ (q = "balance" /\ id = "acct-1" /\ events = Scenario) =>
                       Loaded(db', error_handler'[q], q, id)
                           = Some([kind |-> "Counter", n |-> 12])]_vars

----------------------------------------------------------------------------
(* C2 *)

\* C2: from every stored state, apply_events(id, e1) followed by
\* apply_events(id, e2) leaves the same record under id as one
\* apply_events(id, e1 ++ e2); stated here for the cases in which all three
\* calls run to completion.
C2_SplitBatch ==
    \A q \in repos, id \in Ids : \A e1 \in Batches(q), e2 \in Batches(q) :
        LET handler == error_handler[q]
            first == ApplyEventsOutcome(db, handler, q, id, e1, "none")
            second == ApplyEventsOutcome(first.db, handler, q, id, e2, "none")
            single == ApplyEventsOutcome(db, handler, q, id, e1 \o e2, "none")
        IN (/\ Len(e1) + Len(e2) <= MaxEvents
            /\ WithinBounds(db, q, id, e1 \o e2)
            /\ first.panic = "none"
            /\ second.panic = "none"
            /\ single.panic = "none")
               => second.db[q][id] = single.db[q][id]

----------------------------------------------------------------------------
(* C3 *)

\* C3: every view v that commit writes under (namespace, id) is the view
\* the stored bytes deserialize into, so the load(id) that follows a
\* completed apply_events returns Some(v).
C3_RoundTrip ==
    [][\A q \in repos, id \in Ids : \A in \in ApplyInputs(q) :
          (ApplyEvents(q, id, in[1], in[2]) /\ lastCall'.panic = "none") =>
              LET v == Fold(LoadMut(db, q, id, in[2]).val.view, in[1])
              IN /\ StoredView(db', q, id) = Some(v)
                 /\ Loaded(db', error_handler'[q], q, id) = Some(v)]_vars

----------------------------------------------------------------------------
(* C4 *)

\* C4: for an id under which no commit has ever completed, load(id) over a
\* storage that works returns None, does not halt and invokes no handler,
\* whatever was done to other ids before.
C4_NeverCommittedLoadsNone ==
    [][\A q \in repos, id \in Ids :
          (Load(q, id, "none") /\ <<q, id>> \notin committed) =>
              /\ lastCall'.ret = None
              /\ lastCall'.panic = "none"
              /\ lastCall'.handled = <<>>]_vars

\* a load of a never-committed id has returned None after a commit under
\* the other id
C4_Witness ==
    /\ lastCall.op = "load"
    /\ <<lastCall.repo, lastCall.id>> \notin committed
    /\ \E other \in Ids \ {lastCall.id} : <<lastCall.repo, other>> \in committed
    /\ lastCall.ret = None
    /\ lastCall.panic = "none"
    /\ lastCall.handled = <<>>

----------------------------------------------------------------------------
(* C5 *)

\* C5: when a record for id exists, apply_events(id, []) leaves the stored
\* view for id value-equal to what it was before the call.
C5_EmptyBatchIdempotent ==
    [][\A q \in repos, id \in Ids :
          (db[q][id].tag = "Some" /\ ApplyEvents(q, id, <<>>, "none")) =>
              StoredView(db', q, id) = StoredView(db, q, id)]_vars

----------------------------------------------------------------------------
(* C6 *)

\* C6: when the record under (namespace, id) is malformed and a handler is
\* registered, load(id) over a storage that works returns None, invokes
\* that handler exactly once, with the deserialization error, and does not
\* halt.
C6_MalformedLoadReportsOnce ==
    [][\A q \in repos, id \in Ids :
          (/\ Load(q, id, "none")
           /\ Malformed(db, q, id)
           /\ error_handler[q].tag = "Some") =>
              /\ lastCall'.ret = None
              /\ lastCall'.panic = "none"
              /\ lastCall'.handled
                     = <<[handler |-> error_handler[q].val,
                          error |-> "deserialization"]>>]_vars

\* a load of a malformed record has returned with a handler registered
C6_Witness ==
    /\ lastCall.op = "load"
    /\ lastCall.panic = "none"
    /\ Malformed(db, lastCall.repo, lastCall.id)
    /\ error_handler[lastCall.repo].tag = "Some"
    /\ Len(lastCall.handled) = 1

----------------------------------------------------------------------------
(* C7 *)

\* C7: when the record under (namespace, id) exists and cannot be
\* deserialized, apply_events(id, events) reports the failure to the
\* handler (if one is set), leaves the stored record unchanged and returns
\* without halting.
C7_MalformedApplyReports ==
    [][\A q \in repos, id \in Ids : \A events \in Batches(q) :
          (Malformed(db, q, id) /\ ApplyEvents(q, id, events, "none")) =>
              /\ lastCall'.panic = "none"
              /\ lastCall'.handled
                     = InvokeHandler(error_handler[q], "deserialization")
              /\ db' = db]_vars

----------------------------------------------------------------------------
(* C8 *)

\* C8: with no handler registered, when the storage layer's get returns a
\* read error, load(id) returns None rather than halting.
C8_ReadErrorLoadsNone ==
    [][\A q \in repos, id \in Ids :
          (Load(q, id, "get") /\ error_handler[q] = None) =>
              /\ lastCall'.ret = None
              /\ lastCall'.panic = "none"]_vars

----------------------------------------------------------------------------
(* C9 *)

\* commit fails on this view: it has no serialized form, or its serialized
\* form is no JSON string, or the storage layer fails the write
CommitFails(view, fault) ==
    \/ fault \in {"commit_open_tree", "insert"}
    \/ ToValue(view).tag = "Err"
    \/ AsStr(ToValue(view).val) = None

\* C9: an apply_events whose commit fails halts, writes nothing and invokes
\* no handler (a step of apply_events either did so, or is the step of no
\* input whose commit fails); and a call invokes the handler only for a
\* stored record that failed to deserialize, with that error.
C9_CommitFailureHalts ==
    [][/\ lastCall'.op = "apply_events" =>
             LET q == lastCall'.repo
                 id == lastCall'.id
             IN \/ /\ lastCall'.panic # "none"
                   /\ lastCall'.handled = <<>>
                   /\ db' = db
                \/ \A in \in ApplyInputs(q) :
                      (/\ LoadMut(db, q, id, in[2]).tag = "Ok"
                       /\ CommitFails(Fold(LoadMut(db, q, id, in[2]).val.view,
                                           in[1]), in[2]))
                          => ~ApplyEvents(q, id, in[1], in[2])
       /\ lastCall'.handled # <<>> =>
             /\ Malformed(db, lastCall'.repo, lastCall'.id)
             /\ \A i \in 1..Len(lastCall'.handled) :
                   lastCall'.handled[i].error = "deserialization"]_vars

\* an apply_events has halted in commit with a handler registered, on a
\* view that is no JSON string or on a rejected write
C9_Witness ==
    /\ lastCall.op = "apply_events"
    /\ lastCall.panic \in {"as_str", "insert"}
    /\ error_handler[lastCall.repo].tag = "Some"
    /\ lastCall.handled = <<>>

----------------------------------------------------------------------------
(* C10 *)

\* C10: with no handler registered, load(id) of a malformed record over a
\* storage that works returns None, does not halt and changes neither the
\* store nor the repository.
C10_NoHandlerSwallows ==
    [][\A q \in repos, id \in Ids :
          (/\ Load(q, id, "none")
           /\ Malformed(db, q, id)
           /\ error_handler[q] = None) =>
              /\ lastCall'.ret = None
              /\ lastCall'.panic = "none"
              /\ lastCall'.handled = <<>>
              /\ db' = db
              /\ error_handler' = error_handler]_vars

\* a load of a malformed record has returned None with no handler set
C10_Witness ==
    /\ lastCall.op = "load"
    /\ Malformed(db, lastCall.repo, lastCall.id)
    /\ error_handler[lastCall.repo] = None
    /\ lastCall.ret = None
    /\ lastCall.panic = "none"

----------------------------------------------------------------------------
(* C12 *)

\* C12: a repository holds at most one handler: with_error_handler(h) makes
\* h the handler whatever was set before, a load of a malformed record then
\* invokes the handler set last exactly once and no other, and while none
\* has been set no call invokes a handler.
C12_OneHandler ==
    [][/\ \A q \in repos, h \in Handlers :
             WithErrorHandler(q, h) =>
                 /\ error_handler'[q] = Some(h)
                 /\ \A id \in Ids :
                       Malformed(db', q, id) =>
                           LoadOutcome(db', error_handler'[q], q, id,
                                       "none").handled
                               = <<[handler |-> h, error |-> "deserialization"]>>
       /\ \A i \in 1..Len(lastCall'.handled) :
             error_handler[lastCall'.repo] = Some(lastCall'.handled[i].handler)
       /\ Len(lastCall'.handled) <= 1]_vars

\* h2 has replaced h1 and a later load of a malformed record has invoked
\* h2 once
C12_Witness ==
    /\ replaced[lastCall.repo]
    /\ error_handler[lastCall.repo] = Some("h2")
    /\ lastCall.op = "load"
    /\ Malformed(db, lastCall.repo, lastCall.id)
    /\ lastCall.handled = <<[handler |-> "h2", error |-> "deserialization"]>>

----------------------------------------------------------------------------
(* C13 *)

\* C13: when no record exists for id, apply_events(id, []) succeeds and
\* leaves a record under (namespace, id) holding the default view, which
\* the load(id) that follows returns as Some(default).
C13_EmptyBatchCommitsDefault ==
    [][\A q \in repos, id \in Ids :
          (db[q][id] = None /\ ApplyEvents(q, id, <<>>, "none")) =>
              /\ lastCall'.panic = "none"
              /\ db'[q][id].tag = "Some"
              /\ StoredView(db', q, id) = Some(Default(ViewType(q)))
              /\ Loaded(db', error_handler'[q], q, id)
                     = Some(Default(ViewType(q)))]_vars

----------------------------------------------------------------------------
(* C16 *)

\* C16: apply_events(id, events) on the repository of namespace n changes
\* at most the record under (n, id): the records under every other id of n
\* and in every other namespace of the Db are as they were.
C16_WritesOwnKeyOnly ==
    [][lastCall'.op = "apply_events" =>
          \A n \in Repos, i \in Ids :
              (n # lastCall'.repo \/ i # lastCall'.id) =>
                  db'[n][i] = db[n][i]]_vars

\* an apply_events has written its record beside another id's record,
\* which differs from it
C16_Witness ==
    /\ lastCall.op = "apply_events"
    /\ lastCall.panic = "none"
    /\ db[lastCall.repo][lastCall.id].tag = "Some"
    /\ \E other \in Ids \ {lastCall.id} :
          /\ db[lastCall.repo][other].tag = "Some"
          /\ db[lastCall.repo][other] # db[lastCall.repo][lastCall.id]

----------------------------------------------------------------------------
(* C17 *)

\* C17: load(id) is read-only: whatever it returns, it leaves every record
\* of every namespace and the registered handler as they were.
C17_LoadReadOnly ==
    [][lastCall'.op = "load" =>
          /\ db' = db
          /\ error_handler' = error_handler]_vars

\* a load has returned a view with a handler registered and a malformed
\* record under the other id
C17_Witness ==
    /\ lastCall.op = "load"
    /\ lastCall.ret.tag = "Some"
    /\ error_handler[lastCall.repo].tag = "Some"
    /\ \E other \in Ids \ {lastCall.id} : Malformed(db, lastCall.repo, other)

----------------------------------------------------------------------------
(* C18 *)

\* C18: over a storage that works, an apply_events whose load succeeded
\* writes exactly when the serialized form of its view is a JSON string,
\* and then stores the string's raw contents under (namespace, id); for a
\* view of any other serialized form it halts and writes nothing.
C18_OnlyJsonStringsWritten ==
    \A q \in repos, id \in Ids : \A events \in Batches(q) :
        LET loaded == LoadMut(db, q, id, "none")
        IN loaded.tag = "Ok" =>
               LET view == Fold(loaded.val.view, events)
                   value == ToValue(view).val
                   out == ApplyEventsOutcome(db, error_handler[q], q, id,
                                             events, "none")
               IN IF value.json = "String"
                  THEN /\ out.panic = "none"
                       /\ out.db = [db EXCEPT ![q][id] = Some(value.s)]
                  ELSE /\ out.panic # "none"
                       /\ out.db = db

\* an apply_events of the counter view has halted in commit's as_str
\* unwrap, leaving no record
C18_Witness ==
    /\ lastCall.op = "apply_events"
    /\ ViewType(lastCall.repo) = "Counter"
    /\ lastCall.panic = "as_str"
    /\ db[lastCall.repo][lastCall.id] = None

----------------------------------------------------------------------------
(* C19 *)

\* C19: an apply_events that halts, while loading or while committing,
\* leaves the store exactly as it was; the store changes only in an
\* apply_events that runs to completion.
C19_NoPartialWrite ==
    [][/\ (lastCall'.op = "apply_events" /\ lastCall'.panic # "none") =>
             db' = db
       /\ db' # db =>
             (lastCall'.op = "apply_events" /\ lastCall'.panic = "none")]_vars

\* an apply_events has halted on a record it could not deserialize, which
\* is still stored
C19_Witness ==
    /\ lastCall.op = "apply_events"
    /\ lastCall.panic = "from_slice"
    /\ Malformed(db, lastCall.repo, lastCall.id)

----------------------------------------------------------------------------
(* C14 *)

\* C14: from the same store and handler, dispatch(id, events) and
\* apply_events(id, events) leave the same store, make the same handler
\* invocations and halt alike.
C14_DispatchIsApplyEvents ==
    \A q \in repos, id \in Ids : \A in \in ApplyInputs(q) :
        LET viaDispatch == DispatchOutcome(db, error_handler[q], q, id,
                                           in[1], in[2])
            direct == ApplyEventsOutcome(db, error_handler[q], q, id,
                                         in[1], in[2])
        IN /\ viaDispatch.db = direct.db
           /\ viaDispatch.handled = direct.handled
           /\ viaDispatch.panic = direct.panic

\* a dispatch has run to completion and written a record that holds its
\* events
C14_Witness ==
    /\ lastCall.op = "dispatch"
    /\ lastCall.panic = "none"
    /\ db[lastCall.repo][lastCall.id].tag = "Some"
    /\ db[lastCall.repo][lastCall.id].val # <<>>

----------------------------------------------------------------------------
(* C15 *)

\* C15: the record under (namespace, id) is present exactly when a commit
\* for that id has completed; it appears only in an apply_events or
\* dispatch for that id that runs to completion, and once present it stays
\* present through every load, apply_events and dispatch.
C15_RecordLifecycle ==
    [][\A q \in Repos, id \in Ids :
          /\ db[q][id].tag = "Some" => db'[q][id].tag = "Some"
          /\ (db'[q][id].tag = "Some") <=> (<<q, id>> \in committed')
          /\ (db[q][id] = None /\ db'[q][id].tag = "Some") =>
                /\ lastCall'.op \in {"apply_events", "dispatch"}
                /\ lastCall'.repo = q
                /\ lastCall'.id = id
                /\ lastCall'.panic = "none"]_vars

\* a call for an id whose record was committed has halted and the record
\* is still there, while the other id has none
C15_Witness ==
    /\ lastCall.op = "dispatch"
    /\ lastCall.panic # "none"
    /\ <<lastCall.repo, lastCall.id>> \in committed
    /\ db[lastCall.repo][lastCall.id].tag = "Some"
    /\ \E other \in Ids \ {lastCall.id} : db[lastCall.repo][other] = None

----------------------------------------------------------------------------
(* C11 *)

\* the record that thread p's call leaves under its id when it runs alone
\* over the record its load_mut read
Alone(p) ==
    LET c == calls[p]
    IN ApplyEventsOutcome([base EXCEPT ![c.q][c.id] = c.seen],
                          error_handler[c.q], c.q, c.id, c.events,
                          "none").db[c.q][c.id]

\* the record a single call with p's events followed by o's leaves under
\* p's id, over the record p's load_mut read
Both(p, o) ==
    LET c == calls[p]
    IN ApplyEventsOutcome([base EXCEPT ![c.q][c.id] = c.seen],
                          error_handler[c.q], c.q, c.id,
                          c.events \o calls[o].events, "none").db[c.q][c.id]

\* C11: two concurrent apply_events calls for the same id are not isolated:
\* when both read the same record and both complete, the record left under
\* the id is the one that one of the two calls alone would have written
\* over the record it read (the last write wins, nothing is merged).
C11_LastWriteWins ==
    \A p \in Procs, o \in Procs :
        (/\ p # o
         /\ calls[p].pc = "done" /\ calls[o].pc = "done"
         /\ calls[p].panic = "none" /\ calls[o].panic = "none"
         /\ calls[p].q = calls[o].q /\ calls[p].id = calls[o].id
         /\ calls[p].seen = calls[o].seen)
            => db[calls[p].q][calls[p].id] \in {Alone(p), Alone(o)}

\* both calls for one id have read the record the threads started from and
\* have completed, and the stored record holds the events of one call only:
\* it is not what the events of both, in either order, would have left
C11_Witness ==
    \E p \in Procs, o \in Procs :
        /\ p # o
        /\ calls[p].pc = "done" /\ calls[o].pc = "done"
        /\ calls[p].panic = "none" /\ calls[o].panic = "none"
        /\ calls[p].q = calls[o].q /\ calls[p].id = calls[o].id
        /\ calls[p].seen = base[calls[p].q][calls[p].id]
        /\ calls[o].seen = base[calls[p].q][calls[p].id]
        /\ calls[p].events # <<>> /\ calls[o].events # <<>>
        /\ db[calls[p].q][calls[p].id] = Alone(p)
        /\ Alone(p) # Alone(o)
        /\ db[calls[p].q][calls[p].id] \notin {Both(p, o), Both(o, p)}

----------------------------------------------------------------------------
(* C20 *)

\* the tree and key a thread's call reads and writes
Key(p) == <<calls[p].q, calls[p].id>>

\* the store left by the call of thread first followed by the call of
\* thread second, started from base
Sequential(first, second) ==
    LET c1 == calls[first]
        c2 == calls[second]
        mid == ApplyEventsOutcome(base, error_handler[c1.q], c1.q, c1.id,
                                  c1.events, "none").db
    IN ApplyEventsOutcome(mid, error_handler[c2.q], c2.q, c2.id, c2.events,
                          "none").db

\* C20: concurrent apply_events calls for different ids, or on repositories
\* of different namespaces over one Db, do not interfere: however their
\* load, fold and commit steps interleave, the store they leave is the
\* store that running them one after the other leaves, in either order.
C20_DisjointCallsCommute ==
    (/\ calls[1].pc = "done" /\ calls[2].pc = "done"
     /\ Key(1) # Key(2))
        => /\ db = Sequential(1, 2)
           /\ db = Sequential(2, 1)

\* two concurrent calls for different ids of "notes" have both completed
\* and each has written its record
C20_Witness ==
    /\ calls[1].pc = "done" /\ calls[2].pc = "done"
    /\ calls[1].panic = "none" /\ calls[2].panic = "none"
    /\ calls[1].q = calls[2].q
    /\ calls[1].id # calls[2].id
    /\ calls[1].events # <<>> /\ calls[2].events # <<>>
    /\ db[calls[1].q][calls[1].id] # base[calls[1].q][calls[1].id]
    /\ db[calls[2].q][calls[2].id] # base[calls[2].q][calls[2].id]

====
